---- MODULE Spec2Model ----
(***************************************************************************)
(* Tiffinder: a path index (cache) of TIFF files, substring search over    *)
(* the index, and copy / preview / log of search results with collision    *)
(* handling of the target names.  Model of src/Tiffinder.py.               *)
(*                                                                         *)
(* File names are kept split as the code's pathlib sees them: a directory, *)
(* a stem and an extension, the stem and the extension being sequences of  *)
(* one-character strings so that substring search, "_" replacement and     *)
(* the " (i)" numbering are computed on characters.                        *)
(***************************************************************************)
EXTENDS Integers, Sequences, FiniteSets, TLC

VARIABLES
    fs,        \* the image files on disk: path -> content
    cache,     \* self.cache: insertion-ordered dict, a sequence of [path, key]
    store,     \* the cache file cache_fn: absent, or its data and mtime
    now,       \* time.time(), in seconds
    logCfg,    \* the directory of the root logger's file handler, or NoLog
    call,      \* the last call made on the object and what it printed / did
    runs       \* the copy runs of other processes that are under way

vars == <<fs, cache, store, now, logCfg, call, runs>>

----------------------------------------------------------------------------
(* Bounds of the model *)

MaxFiles == 5       \* calls that would leave more files on disk are not made
MaxSkew == 1        \* the clock runs up to StaleThreshold + MaxSkew

----------------------------------------------------------------------------
(* Directories and names *)

RootR == <<"R">>
DirA == <<"R", "A">>
DirB == <<"R", "B">>
DirD == <<"D">>
DirN == <<"N">>

\* the directories that exist; DirN does not
ExistingDirs == {RootR, DirA, DirB, DirD}

IsUnder(dir, root) ==
    /\ Len(root) <= Len(dir)
    /\ SubSeq(dir, 1, Len(root)) = root

StemAB == <<"a", "b">>
ExtTiff == <<"t", "i", "f", "f">>
ExtJpg == <<"j", "p", "g">>

MkPath(d, s, e) == [dir |-> d, stem |-> s, ext |-> e]
NoPath == MkPath(<<>>, <<>>, <<>>)

DigitChars == <<"0", "1", "2", "3", "4", "5", "6", "7", "8", "9">>

RECURSIVE Digits(_)
\* str(i) of a natural number, as characters
Digits(i) ==
    IF i < 10 THEN <<DigitChars[i + 1]>>
    ELSE Digits(i \div 10) \o <<DigitChars[(i % 10) + 1]>>

\* f"{stem} ({i})"
NumberedStem(stem, i) == stem \o <<" ", "(">> \o Digits(i) \o <<")">>

Exists(f, p) == p \in DOMAIN f

\* f with the file p written with content c
WriteFile(f, p, c) == [q \in DOMAIN f \cup {p} |-> IF q = p THEN c ELSE f[q]]

RemoveFile(f, p) == [q \in DOMAIN f \ {p} |-> f[q]]

\* an image file: its format, its pixel data, its width and height in pixels
Image(fmt, n, w, h) == [fmt |-> fmt, data |-> n, w |-> w, h |-> h]

\* a small TIFF with pixel data n
TifContent(n) == Image("tif", n, 4, 3)

----------------------------------------------------------------------------
(* Search keys and the cache dict *)

ReplaceChar(s, from, to) == [i \in 1..Len(s) |-> IF s[i] = from THEN to ELSE s[i]]

\* index of the first occurrence of ch in s, 0 if none
FirstIndex(s, ch) ==
    IF \E i \in 1..Len(s) : s[i] = ch
    THEN CHOOSE i \in 1..Len(s) : s[i] = ch /\ \A j \in 1..(i - 1) : s[j] # ch
    ELSE 0

RECURSIVE Split(_, _, _)
\* s.split(sep, maxsplit=n): at most n splits, the rest kept whole
Split(s, sep, n) ==
    LET i == FirstIndex(s, sep) IN
    IF n = 0 \/ i = 0 THEN <<s>>
    ELSE <<SubSeq(s, 1, i - 1)>> \o Split(SubSeq(s, i + 1, Len(s)), sep, n - 1)

RECURSIVE Join(_, _)
\* sep.join(parts)
Join(parts, sep) ==
    IF Len(parts) = 0 THEN <<>>
    ELSE IF Len(parts) = 1 THEN parts[1]
    ELSE parts[1] \o <<sep>> \o Join(Tail(parts), sep)

MaxSplit == 5

\* the search key scandir stores for a stem
ShortKey(stem) ==
    LET needle == ReplaceChar(stem, "_", " ")
    IN Join(Split(needle, " ", MaxSplit), " ")

\* the glob pattern "*.tif[f?]" on the extension: "tif" and one of the
\* characters f, ?
GlobMatch(ext) ==
    /\ Len(ext) = 4
    /\ SubSeq(ext, 1, 3) = <<"t", "i", "f">>
    /\ ext[4] \in {"f", "?"}

CachePaths(c) == {c[i].path : i \in 1..Len(c)}

CacheKey(c, p) == (CHOOSE i \in 1..Len(c) : c[i].path = p)

\* self.cache[path] = key on an insertion-ordered dict
Put(c, p, k) ==
    IF p \in CachePaths(c)
    THEN [c EXCEPT ![CacheKey(c, p)].key = k]
    ELSE Append(c, [path |-> p, key |-> k])

\* a search that matches the needle at the start of the key only
IsPrefixOnly(needle, key) ==
    /\ Len(needle) <= Len(key)
    /\ SubSeq(key, 1, Len(needle)) = needle

\* Python's "needle in key" on strings
IsSubstr(needle, key) ==
    \E i \in 0..(Len(key) - Len(needle)) :
        SubSeq(key, i + 1, i + Len(needle)) = needle

\* Tiffinder.search: the paths whose key contains the needle, in dict order
Search(c, needle) ==
    LET hits == SelectSeq(c, LAMBDA e : IsSubstr(needle, e.key))
    IN [i \in 1..Len(hits) |-> hits[i].path]

----------------------------------------------------------------------------
(* The cache file *)

NoStore == [exists |-> FALSE, data |-> <<>>, mtime |-> 0, wellformed |-> TRUE]

\* a cache file whose content is not JSON
MalformedStore == [exists |-> TRUE, data |-> <<>>, mtime |-> 0, wellformed |-> FALSE]

\* _write_cache: json.dump of the whole dict, the file's mtime set to now
WriteCache(c, t) == [exists |-> TRUE, data |-> c, mtime |-> t, wellformed |-> TRUE]

\* the constructor's read of the cache file: json.load raises on content that
\* is not JSON; a file that is absent is not read
LoadError(st) == IF st.exists /\ ~st.wellformed THEN "JSONDecodeError" ELSE "none"

\* 10 * 3600 * 24 seconds
StaleThreshold == 10 * 3600 * 24

\* "import os" is not among the module's imports: os.path.exists raises
\* NameError when it is reached
OsImported == FALSE

\* a staleness test that counts the threshold itself as stale
IsStaleAtThreshold(mtime, t) == t - mtime >= StaleThreshold

\* now - cache_mtime > 10 * 3600 * 24
IsStale(mtime, t) == t - mtime > StaleThreshold

\* the loop that removes the entries whose file is gone
Prune(c, f) == SelectSeq(c, LAMBDA e : Exists(f, e.path))

----------------------------------------------------------------------------
(* Directory scan *)

\* the files Path(scan_dir).rglob("**/*.tif[f?]") yields
ScanFiles(f, root) == {p \in DOMAIN f : IsUnder(p.dir, root) /\ GlobMatch(p.ext)}

\* the orders in which the directory walk may yield them
Orders(S) ==
    {o \in [1..Cardinality(S) -> S] : \A i, j \in 1..Cardinality(S) : o[i] = o[j] => i = j}

RECURSIVE ScanLoop(_, _)
\* the body of scandir's loop over the files, in the order given
ScanLoop(c, order) ==
    IF order = <<>> THEN c
    ELSE ScanLoop(Put(c, Head(order), ShortKey(Head(order).stem)), Tail(order))

RECURSIVE ScanAll(_, _, _)
\* the caches that scanning the roots one after the other may leave
ScanAll(c, f, roots) ==
    IF roots = <<>> THEN {c}
    ELSE UNION {ScanAll(ScanLoop(c, o), f, Tail(roots)) :
                    o \in Orders(ScanFiles(f, Head(roots)))}

----------------------------------------------------------------------------
(* Target names and copying *)

Decision(kind, path, probes) == [kind |-> kind, path |-> path, probes |-> probes]

\* filecmp.cmp(source, target, shallow=False) on two existing files
SameContent(f, source, target) == f[source] = f[target]

RECURSIVE DefaultProbe(_, _, _, _, _)
\* the while loop of _default_policy: target_fn is probed, i is the next number
DefaultProbe(f, source, target_fn, i, probes) ==
    IF ~Exists(f, target_fn) THEN Decision("use", target_fn, Append(probes, target_fn))
    ELSE IF ~Exists(f, source)
         THEN Decision("raise", NoPath, Append(probes, target_fn))
    ELSE IF SameContent(f, source, target_fn)
         THEN Decision("skip", NoPath, Append(probes, target_fn))
    ELSE DefaultProbe(f, source,
                      MkPath(source.dir, NumberedStem(source.stem, i), source.ext),
                      i + 1, Append(probes, target_fn))

FirstNumber == 2

\* a policy without the identity check: an existing name is always a collision
DefaultPolicyNoCompare(f, source, target_dir) ==
    LET first == MkPath(target_dir, source.stem, source.ext)
        free == CHOOSE i \in FirstNumber..(FirstNumber + Cardinality(DOMAIN f)) :
                    /\ ~Exists(f, MkPath(source.dir, NumberedStem(source.stem, i), source.ext))
                    /\ \A j \in FirstNumber..(i - 1) :
                          Exists(f, MkPath(source.dir, NumberedStem(source.stem, j), source.ext))
    IN  IF ~Exists(f, first) THEN Decision("use", first, <<first>>)
        ELSE Decision("use", MkPath(source.dir, NumberedStem(source.stem, free), source.ext),
                      <<first>>)

\* a policy without the collision loop: always the plain name in target_dir
DefaultPolicyPlain(f, source, target_dir) ==
    Decision("use", MkPath(target_dir, source.stem, source.ext),
             <<MkPath(target_dir, source.stem, source.ext)>>)

\* _default_policy(source, target_dir)
DefaultPolicy(f, source, target_dir) ==
    DefaultProbe(f, source, MkPath(target_dir, source.stem, source.ext), FirstNumber, <<>>)

RECURSIVE ChangeExtProbe(_, _, _, _, _, _)
ChangeExtProbe(f, source, target_dir, new_ext, target_fn, i) ==
    IF ~Exists(f, target_fn) THEN target_fn
    ELSE ChangeExtProbe(f, source, target_dir, new_ext,
                        MkPath(target_dir, NumberedStem(source.stem, i), new_ext), i + 1)

\* a policy without the collision loop: always the plain name
ChangeExtensionNoLoop(f, source, target_dir, new_ext) ==
    MkPath(target_dir, source.stem, new_ext)

\* _change_extension_policy(source, target_dir, new_ext)
ChangeExtensionPolicy(f, source, target_dir, new_ext) ==
    ChangeExtProbe(f, source, target_dir, new_ext,
                   MkPath(target_dir, source.stem, new_ext), FirstNumber)

\* what one match of a batch did: the naming decision, the names probed,
\* whether a file was written (and whether that name existed just before),
\* whether a "File not found" line went to the log
Item(src, d, identical, wrote, existed, logged) ==
    [src |-> src, kind |-> d.kind, path |-> d.path, probes |-> d.probes,
     identical |-> identical, wrote |-> wrote, existed |-> existed, logged |-> logged]

NoRun(f) == [fs |-> f, items |-> <<>>, exc |-> "none"]

\* _simple_copy(source, target) for the match whose decision is d
SimpleCopy(st, source, d, identical) ==
    LET target == d.path IN
    IF Exists(st.fs, target)
    THEN [st EXCEPT !.items = Append(@, Item(source, d, identical, FALSE, FALSE, FALSE))]
    ELSE IF Exists(st.fs, source) /\ target.dir \in ExistingDirs
         THEN [st EXCEPT
                 !.fs = WriteFile(@, target, st.fs[source]),
                 !.items = Append(@, Item(source, d, identical, TRUE,
                                          Exists(st.fs, target), FALSE))]
         ELSE [st EXCEPT !.items = Append(@, Item(source, d, identical, FALSE, FALSE, TRUE))]

\* one pass of cp_results' loop
CpStep(st, fn, target_dir) ==
    LET d == DefaultPolicy(st.fs, fn, target_dir)
        identical == {q \in {d.probes[i] : i \in 1..Len(d.probes)} :
                        /\ Exists(st.fs, q)
                        /\ Exists(st.fs, fn)
                        /\ st.fs[q] = st.fs[fn]}
    IN  IF d.kind = "raise" THEN [st EXCEPT !.exc = "FileNotFoundError"]
        ELSE IF d.kind = "skip"
             THEN [st EXCEPT !.items = Append(@, Item(fn, d, identical, FALSE, FALSE, FALSE))]
        ELSE SimpleCopy(st, fn, d, identical)

RECURSIVE CpLoop(_, _, _)
\* cp_results' loop over the results; an exception ends it
CpLoop(st, results, target_dir) ==
    IF results = <<>> \/ st.exc # "none" THEN st
    ELSE CpLoop(CpStep(st, Head(results), target_dir), Tail(results), target_dir)

\* Python's round(n / d) for naturals n, d > 0: to the nearest integer, a
\* half to the even one
RoundHalfEven(n, d) ==
    LET q == n \div d
        r == n % d
    IN  IF 2 * r < d THEN q
        ELSE IF 2 * r > d THEN q + 1
        ELSE IF q % 2 = 0 THEN q ELSE q + 1

\* Pillow's Image.thumbnail((x, y)) on an image of w by h pixels: the size it
\* is reduced to, never enlarged, the aspect ratio kept as well as whole
\* pixels allow
Thumbnail(w, h, x, y) ==
    IF x >= w /\ y >= h THEN <<w, h>>
    ELSE IF x * h >= w * y
    THEN LET fl == (y * w) \div h
             ce == IF (y * w) % h = 0 THEN fl ELSE fl + 1
             dfl == w * y - fl * h
             dce == ce * h - w * y
             n == IF dfl <= dce THEN fl ELSE ce
         IN  <<IF n < 1 THEN 1 ELSE n, y>>
    ELSE LET fl == (x * h) \div w
             ce == IF (x * h) % w = 0 THEN fl ELSE fl + 1
             dfl == (x * h - w * fl) * ce
             dce == (w * ce - x * h) * fl
             n == IF fl = 0 \/ dfl <= dce THEN fl ELSE ce
         IN  <<x, IF n < 1 THEN 1 ELSE n>>

PreviewBound == 720

\* _preview: the size of the image that is saved
PreviewSize(w, h) ==
    IF h > PreviewBound
    THEN Thumbnail(w, h, RoundHalfEven(w * PreviewBound, h),
                   RoundHalfEven(h * PreviewBound, h))
    ELSE <<w, h>>

\* the image _preview saves for a source image c
JpgContent(c) ==
    LET size == PreviewSize(c.w, c.h) IN Image("jpg", c.data, size[1], size[2])

\* _preview(source, target): Image.open, convert, save
Preview(st, source, target) ==
    LET d == Decision("use", target, <<>>) IN
    IF ~Exists(st.fs, source) \/ target.dir \notin ExistingDirs
    THEN [st EXCEPT !.exc = "FileNotFoundError"]
    ELSE [st EXCEPT
            !.fs = WriteFile(@, target, JpgContent(st.fs[source])),
            !.items = Append(@, Item(source, d, {}, TRUE, Exists(st.fs, target), FALSE))]

RECURSIVE PreviewLoop(_, _, _)
\* preview_results' loop
PreviewLoop(st, results, target_dir) ==
    IF results = <<>> \/ st.exc # "none" THEN st
    ELSE PreviewLoop(Preview(st, Head(results),
                             ChangeExtensionPolicy(st.fs, Head(results), target_dir, ExtJpg)),
                     Tail(results), target_dir)

\* a log_results that prints the matches and logs nothing
LogLoopSilent(st, results) ==
    [st EXCEPT !.items =
        [i \in 1..Len(results) |->
            Item(results[i], Decision("log", NoPath, <<>>), {}, FALSE, FALSE, FALSE)]]

RECURSIVE LogLoop(_, _)
\* log_results' loop
LogLoop(st, results) ==
    IF results = <<>> THEN st
    ELSE LogLoop([st EXCEPT !.items = Append(@,
                     Item(Head(results), Decision("log", NoPath, <<>>), {}, FALSE, FALSE,
                          ~Exists(st.fs, Head(results))))],
                 Tail(results))

\* _init_log(outdir): logging.basicConfig opens outdir/tiffinder.log the first
\* time it is called in the process and does nothing afterwards
NoLog == <<"-">>
InitLogFails(cfg, outdir) == cfg = NoLog /\ outdir \notin ExistingDirs
InitLog(cfg, outdir) == IF cfg = NoLog THEN outdir ELSE cfg

----------------------------------------------------------------------------
(* The calls *)

\* no other process is copying
NoRuns == <<>>

NoCall(op) ==
    [op |-> op, needle |-> <<>>, found |-> <<>>, roots |-> <<>>, walked |-> <<>>,
     age |-> 0, young |-> FALSE, target |-> <<>>, results |-> <<>>, items |-> <<>>,
     idents |-> <<>>, none |-> FALSE, indexed |-> <<>>, exc |-> "none"]

\* the needles searched for
Needles == {<<>>, <<"a">>, <<"b">>, <<"(">>, <<"b", "a">>, <<"A">>}

\* the root lists given to scandir / iscandir
ScanRoots == {RootR, DirA, DirB}
IScanRoots == {<<RootR>>, <<DirA, DirB>>}

\* the target directories given to the output calls
Targets == {DirD, DirN}

\* scandir(scan_dir)
ScanDir(root) ==
    /\ \E o \in Orders(ScanFiles(fs, root)) : cache' = ScanLoop(cache, o)
    /\ store' = WriteCache(cache', now)
    /\ call' = [NoCall("scandir") EXCEPT !.roots = <<root>>, !.walked = <<root>>]
    /\ UNCHANGED <<runs, fs, now, logCfg>>

\* iscandir(scan_dir), scan_dir a list of directories
IScanDir(roots) ==
    IF ~store.exists
    THEN \* lstat of the missing cache file
         /\ call' = [NoCall("iscandir") EXCEPT !.roots = roots, !.exc = "FileNotFoundError"]
         /\ UNCHANGED <<runs, fs, cache, store, now, logCfg>>
    ELSE IF ~IsStale(store.mtime, now)
    THEN /\ call' = [NoCall("iscandir") EXCEPT !.roots = roots, !.young = TRUE,
                                               !.age = now - store.mtime]
         /\ UNCHANGED <<runs, fs, cache, store, now, logCfg>>
    ELSE IF cache # <<>> /\ ~OsImported
    THEN /\ call' = [NoCall("iscandir") EXCEPT !.roots = roots, !.exc = "NameError",
                                               !.age = now - store.mtime]
         /\ UNCHANGED <<runs, fs, cache, store, now, logCfg>>
    ELSE /\ cache' \in ScanAll(Prune(cache, fs), fs, roots)
         /\ store' = IF roots = <<>> THEN store ELSE WriteCache(cache', now)
         /\ call' = [NoCall("iscandir") EXCEPT !.roots = roots, !.walked = roots,
                                               !.age = now - store.mtime]
         /\ UNCHANGED <<runs, fs, now, logCfg>>

\* search(needle)
SearchCall(needle) ==
    /\ call' = [NoCall("search") EXCEPT !.needle = needle, !.found = Search(cache, needle)]
    /\ UNCHANGED <<runs, fs, cache, store, now, logCfg>>

\* the lists of matches handed to the output calls: what a search returns
ResultLists == {Search(cache, n) : n \in Needles}

\* cp_results(results, target_dir)
CpResults(results, target_dir) ==
    LET c == [NoCall("cp") EXCEPT !.results = results,
                                  !.target = target_dir]
    IN  IF InitLogFails(logCfg, target_dir)
        THEN /\ call' = [c EXCEPT !.exc = "FileNotFoundError"]
             /\ UNCHANGED <<runs, fs, cache, store, now, logCfg>>
        ELSE LET st == CpLoop(NoRun(fs), results, target_dir) IN
             /\ Cardinality(DOMAIN st.fs) <= MaxFiles
             /\ fs' = st.fs
             /\ logCfg' = InitLog(logCfg, target_dir)
             /\ call' = [c EXCEPT !.items = st.items, !.exc = st.exc]
             /\ UNCHANGED <<runs, cache, store, now>>

\* preview_results(results, target_dir)
PreviewResults(results, target_dir) ==
    LET c == [NoCall("preview") EXCEPT !.results = results,
                                       !.target = target_dir]
    IN  IF InitLogFails(logCfg, target_dir)
        THEN /\ call' = [c EXCEPT !.exc = "FileNotFoundError"]
             /\ UNCHANGED <<runs, fs, cache, store, now, logCfg>>
        ELSE LET st == PreviewLoop(NoRun(fs), results, target_dir) IN
             /\ Cardinality(DOMAIN st.fs) <= MaxFiles
             /\ fs' = st.fs
             /\ logCfg' = InitLog(logCfg, target_dir)
             /\ call' = [c EXCEPT !.items = st.items, !.exc = st.exc]
             /\ UNCHANGED <<runs, cache, store, now>>

\* log_results(results, target_dir)
LogResults(results, target_dir) ==
    LET c == [NoCall("log") EXCEPT !.results = results,
                                   !.target = target_dir]
    IN  IF InitLogFails(logCfg, target_dir)
        THEN /\ call' = [c EXCEPT !.exc = "FileNotFoundError"]
             /\ UNCHANGED <<runs, fs, cache, store, now, logCfg>>
        ELSE /\ logCfg' = InitLog(logCfg, target_dir)
             /\ call' = [c EXCEPT !.items = LogLoop(NoRun(fs), results).items]
             /\ UNCHANGED <<runs, fs, cache, store, now>>

\* a new process: Tiffinder(cache_fn) loads the cache file if there is one
Restart ==
    /\ cache' = IF store.exists THEN store.data ELSE <<>>
    /\ logCfg' = NoLog
    /\ call' = [NoCall("init") EXCEPT !.exc = LoadError(store)]
    /\ UNCHANGED <<runs, fs, store, now>>

----------------------------------------------------------------------------
(* The files on disk at the start: the same name in two directories with
   different content, and a file whose own name is a numbered one *)

InitFiles ==
    LET a == MkPath(DirA, StemAB, ExtTiff)
        b == MkPath(DirB, StemAB, ExtTiff)
        b2 == MkPath(DirB, NumberedStem(StemAB, 2), ExtTiff)
    IN  [p \in {a, b, b2} |-> IF p = b THEN TifContent(2) ELSE TifContent(1)]

----------------------------------------------------------------------------
(* The environment: indexed files vanish, time passes *)

\* the files on disk that the index names or that were there at the start
SourceFiles == {p \in DOMAIN fs : p \in CachePaths(cache) \/ p \in DOMAIN InitFiles}

Vanish(p) ==
    /\ fs' = RemoveFile(fs, p)
    /\ call' = NoCall("env")
    /\ UNCHANGED <<runs, cache, store, now, logCfg>>

\* the instants at which the clock is read: up to MaxSkew seconds after the
\* start, and from a threshold later on
Instants == (0..MaxSkew) \cup (StaleThreshold..(StaleThreshold + MaxSkew))

Tick(t) ==
    /\ t > now
    /\ now' = t
    /\ call' = NoCall("env")
    /\ UNCHANGED <<runs, fs, cache, store, logCfg>>

----------------------------------------------------------------------------

\* a fresh object, no cache file yet
InitIndex ==
    /\ fs = InitFiles
    /\ cache = <<>>
    /\ store = NoStore
    /\ now = 0
    /\ logCfg = NoLog
    /\ call = NoCall("init")
    /\ runs = NoRuns

\* an object constructed on the cache file that earlier scans of DirA and
\* DirB wrote
InitCopy ==
    /\ fs = InitFiles
    /\ cache \in ScanAll(<<>>, InitFiles, <<DirA, DirB>>)
    /\ store = WriteCache(cache, 0)
    /\ now = 0
    /\ logCfg = NoLog
    /\ call = NoCall("init")
    /\ runs = NoRuns

NextIndex ==
    \/ \E root \in ScanRoots : ScanDir(root)
    \/ \E roots \in IScanRoots : IScanDir(roots)
    \/ \E needle \in Needles : SearchCall(needle)
    \/ Restart
    \/ \E p \in SourceFiles : Vanish(p)
    \/ \E t \in Instants : Tick(t)

NextCopy ==
    \/ \E r \in ResultLists, t \in Targets : CpResults(r, t)
    \/ \E r \in ResultLists, t \in Targets : PreviewResults(r, t)
    \/ \E r \in ResultLists, t \in Targets : LogResults(r, t)
    \/ Restart
    \/ \E p \in SourceFiles : Vanish(p)

\* the index: scanning, refreshing and searching
SpecIndex == InitIndex /\ [][NextIndex]_vars

\* the output calls over the matches of a loaded index
SpecCopy == InitCopy /\ [][NextCopy]_vars

----------------------------------------------------------------------------
(* Scanning a directory of differently named files; search_mpx; a scan
   that is interrupted *)

StemA110 == <<"A", " ", "1", "1", "0">>
Stema110 == <<"a", " ", "1", "1", "0">>
\* "V_c 1 a b x y": seven space-delimited tokens once "_" is replaced
StemLong == <<"V", "_", "c", " ", "1", " ", "a", " ", "b", " ", "x", " ", "y">>
ExtTif == <<"t", "i", "f">>
ExtTIF == <<"T", "I", "F">>

\* the files a scanned tree may hold
ScanUniverse ==
    {MkPath(DirA, StemA110, ExtTif), MkPath(DirA, Stema110, ExtTIF),
     MkPath(DirA, StemA110, ExtTiff), MkPath(DirB, StemLong, ExtTiff),
     MkPath(DirB, StemAB, ExtJpg)}

\* the identifiers of an export's identNr records, in document order
IdentLists == {<<>>, <<StemA110>>, <<<<"1">>>>, <<<<"1">>, StemA110>>}

ScanNeedles == {StemA110, <<"1">>, <<"x", " ", "y">>}

RECURSIVE Repeat(_, _)
\* results.extend(found), n times over
Repeat(found, n) == IF n = 0 THEN <<>> ELSE found \o Repeat(found, n - 1)

\* search_mpx: the loop over the identNr nodes returns at the end of its first
\* pass, having extended the results by found once for every element of found;
\* with no node the function falls off its end and returns None
SearchMpx(c, idents) ==
    IF idents = <<>> THEN [none |-> TRUE, list |-> <<>>]
    ELSE LET found == Search(c, Head(idents))
         IN  [none |-> FALSE, list |-> Repeat(found, Len(found))]

\* search_mpx(mpx_fn) on an export with these identifiers
SearchMpxCall(idents) ==
    LET r == SearchMpx(cache, idents) IN
    /\ call' = [NoCall("search_mpx") EXCEPT !.idents = idents, !.none = r.none,
                                            !.found = r.list]
    /\ UNCHANGED <<runs, fs, cache, store, now, logCfg>>

\* a cache file that is rewritten whenever a file has been indexed
WrittenPerFile(st, c, t) == WriteCache(c, t)

\* the cache file when scandir's loop is interrupted with c in memory:
\* _write_cache comes after the loop and has not run
InterruptedStore(st, c, t) == st

\* scandir(scan_dir) in a process that dies in the loop, after some of the
\* files were indexed; the object afterwards is the one a new process
\* constructs on the cache file
ScanCrash(root) ==
    \E o \in Orders(ScanFiles(fs, root)) : \E k \in 0..Len(o) :
        /\ store' = InterruptedStore(store, ScanLoop(cache, SubSeq(o, 1, k)), now)
        /\ cache' = IF store'.exists THEN store'.data ELSE <<>>
        /\ logCfg' = NoLog
        /\ call' = [NoCall("crash") EXCEPT !.roots = <<root>>,
                                           !.indexed = SubSeq(o, 1, k)]
        /\ UNCHANGED <<runs, fs, now>>

\* a fresh object, no cache file yet, over a tree holding some of the files
InitScan ==
    /\ \E S \in SUBSET ScanUniverse : fs = [p \in S |-> TifContent(1)]
    /\ cache = <<>>
    /\ store = NoStore
    /\ now = 0
    /\ logCfg = NoLog
    /\ call = NoCall("init")
    /\ runs = NoRuns

NextScan ==
    \/ \E root \in {RootR, DirA} : ScanDir(root)
    \/ \E root \in {RootR, DirA} : ScanCrash(root)
    \/ \E needle \in ScanNeedles : SearchCall(needle)
    \/ \E idents \in IdentLists : SearchMpxCall(idents)

\* scanning and searching trees of differently named files
SpecScan == InitScan /\ [][NextScan]_vars

----------------------------------------------------------------------------
(* Objects constructed on a cache file that is absent, well-formed or
   malformed *)

\* the constructor returned: there is an object to call
Constructed == ~(call.op = "init" /\ call.exc # "none")

InitStore ==
    /\ fs = InitFiles
    /\ store \in {NoStore, MalformedStore}
                 \cup {WriteCache(c, 0) : c \in ScanAll(<<>>, InitFiles, <<DirA, DirB>>)}
    /\ cache = IF store.exists THEN store.data ELSE <<>>
    /\ now = 0
    /\ logCfg = NoLog
    /\ call = [NoCall("init") EXCEPT !.exc = LoadError(store)]
    /\ runs = NoRuns

NextStore ==
    \/ Restart
    \/ Constructed /\ \E root \in ScanRoots : ScanDir(root)
    \/ Constructed /\ \E roots \in IScanRoots : IScanDir(roots)
    \/ Constructed /\ \E needle \in Needles : SearchCall(needle)
    \/ Constructed /\ \E t \in Instants : Tick(t)

\* the readers of the cache file
SpecStore == InitStore /\ [][NextStore]_vars

----------------------------------------------------------------------------
(* TifMpx (src/Tifmpx.py): copying the TIFF of every multimedia record of
   an export to target_dir under the name mulId.dateiname.tif *)

\* a multimediaobjekt record: its mulId attribute and its dateiname
MpxRecord(mulId, dateiname) == [mulId |-> mulId, dateiname |-> dateiname]

\* the record lists of the exports handed to search_mpx
MpxRecordLists ==
    LET r7 == MpxRecord(<<"7">>, StemAB)
        r8 == MpxRecord(<<"8">>, NumberedStem(StemAB, 2))
        r9 == MpxRecord(<<"9">>, <<"z">>)
    IN  {<<>>, <<r7>>, <<r7, r8>>, <<r9, r7>>}

\* target_dir=None: report only
NoTarget == <<>>

\* TifMpx._scan_dir: the *.tif files, then the *.tiff files, keyed by their
\* stem
MpxScan(f, root) ==
    LET tifs == {p \in DOMAIN f : IsUnder(p.dir, root) /\ p.ext = ExtTif}
        tiffs == {p \in DOMAIN f : IsUnder(p.dir, root) /\ p.ext = ExtTiff}
    IN  {[i \in 1..Len(o) |-> [path |-> o[i], key |-> o[i].stem]] :
            o \in {o1 \o o2 : o1 \in Orders(tifs), o2 \in Orders(tiffs)}}

\* _cache_by_name: the first path of the cache whose key is the name
CacheByName(c, name) ==
    c[CHOOSE i \in 1..Len(c) :
          c[i].key = name /\ \A j \in 1..(i - 1) : c[j].key # name].path

\* a target name made of the file name alone
CopyFnNameNoId(target_dir, mulId, dateiname) == MkPath(target_dir, dateiname, ExtTif)

\* os.path.join(target_dir, mulId + '.' + dateiname + '.tif')
CopyFnName(target_dir, mulId, dateiname) ==
    MkPath(target_dir, mulId \o <<".">> \o dateiname, ExtTif)

\* _copy_fn(target_dir, mulId, dateiname)
CopyFn(st, c, target_dir, rec) ==
    LET target_fn == CopyFnName(target_dir, rec.mulId, rec.dateiname)
        source == CacheByName(c, rec.dateiname)
        d == Decision("mpx", target_fn, <<>>)
    IN  IF Exists(st.fs, target_fn)
        THEN [st EXCEPT !.items = Append(@, Item(source, d, {}, FALSE, TRUE, FALSE))]
        ELSE IF Exists(st.fs, source)
        THEN [st EXCEPT !.fs = WriteFile(@, target_fn, st.fs[source]),
                        !.items = Append(@, Item(source, d, {}, TRUE, FALSE, FALSE))]
        ELSE [st EXCEPT !.items = Append(@, Item(source, d, {}, FALSE, FALSE, TRUE))]

\* one pass of TifMpx.search_mpx's loop over the records
MpxStep(st, c, target_dir, rec) ==
    LET none == Decision("none", NoPath, <<>>) IN
    IF \E i \in 1..Len(c) : c[i].key = rec.dateiname
    THEN IF target_dir # NoTarget
         THEN CopyFn(st, c, target_dir, rec)
         ELSE [st EXCEPT !.items = Append(@, Item(NoPath, none, {}, FALSE, FALSE, FALSE))]
    ELSE [st EXCEPT !.items = Append(@, Item(NoPath, none, {}, FALSE, FALSE, TRUE))]

RECURSIVE MpxLoop(_, _, _, _)
MpxLoop(st, c, target_dir, recs) ==
    IF recs = <<>> THEN st
    ELSE MpxLoop(MpxStep(st, c, target_dir, Head(recs)), c, target_dir, Tail(recs))

\* TifMpx.search_mpx(mpx_fn, target_dir); _init_log opens target_dir/report.log
MpxSearch(recs, target_dir) ==
    LET c == [NoCall("mpx") EXCEPT !.idents = recs, !.target = target_dir] IN
    IF target_dir # NoTarget /\ target_dir \notin ExistingDirs
    THEN /\ call' = [c EXCEPT !.exc = "FileNotFoundError"]
         /\ UNCHANGED <<runs, fs, cache, store, now, logCfg>>
    ELSE LET st == MpxLoop(NoRun(fs), cache, target_dir, recs) IN
         /\ Cardinality(DOMAIN st.fs) <= MaxFiles
         /\ fs' = st.fs
         /\ call' = [c EXCEPT !.items = st.items]
         /\ UNCHANGED <<runs, cache, store, now, logCfg>>

\* TifMpx(scan_dir) with no cache file: the tree is scanned and the cache
\* file written
InitMpx ==
    /\ fs = InitFiles
    /\ cache \in MpxScan(InitFiles, RootR)
    /\ store = WriteCache(cache, 0)
    /\ now = 0
    /\ logCfg = NoLog
    /\ call = NoCall("init")
    /\ runs = NoRuns

NextMpx ==
    \/ \E recs \in MpxRecordLists, t \in Targets \cup {NoTarget} : MpxSearch(recs, t)
    \/ \E p \in SourceFiles : Vanish(p)

\* TifMpx: copies by the records of an export
SpecMpx == InitMpx /\ [][NextMpx]_vars

----------------------------------------------------------------------------
(* Previews of images of different sizes *)

\* the widths and heights of the source image, around the preview bound
ImageEdges == {500, 719, 720, 721, 1000, 1441}

\* an object constructed on the cache file of a scan that found one image
InitPreview ==
    LET a == MkPath(DirA, StemAB, ExtTiff) IN
    /\ \E w, h \in ImageEdges : fs = [p \in {a} |-> Image("tif", 1, w, h)]
    /\ cache = ScanLoop(<<>>, <<a>>)
    /\ store = WriteCache(cache, 0)
    /\ now = 0
    /\ logCfg = NoLog
    /\ call = NoCall("init")
    /\ runs = NoRuns

NextPreview ==
    \/ \E r \in ResultLists, t \in Targets : PreviewResults(r, t)
    \/ Restart

\* previews of one image, made again and again
SpecPreview == InitPreview /\ [][NextPreview]_vars

----------------------------------------------------------------------------
(* Two processes that run cp_results on one match each, into the same
   target directory, at the same time.  A run names its target
   (_default_policy), tests that the name is free (_simple_copy's is_file)
   and copies (shutil.copy2): three steps, between which the other process
   may take its own. *)

RaceProcs == {1, 2}

\* a run that has not begun; overlap is set once a run named its target
\* while the other had named its own and not yet finished
NewRun(src) ==
    [pc |-> "policy", src |-> src, d |-> Decision("none", NoPath, <<>>),
     wrote |-> FALSE, overlap |-> FALSE]

\* the run of the other process
Other(p) == IF p = 1 THEN 2 ELSE 1

\* the run has named its target and neither copied nor given up yet
InWindow(r) == r.pc \in {"check", "copy"}

\* cp_results' call of _default_policy for the match
RacePolicy(p) ==
    LET r == runs[p]
        d == DefaultPolicy(fs, r.src, DirD)
        o == InWindow(runs[Other(p)])
    IN  /\ r.pc = "policy"
        /\ runs' = [q \in RaceProcs |->
                      IF q = p
                      THEN [r EXCEPT !.d = d, !.overlap = o,
                                     !.pc = IF d.kind = "use" THEN "check" ELSE "done"]
                      ELSE [runs[q] EXCEPT !.overlap = @ \/ o]]
        /\ UNCHANGED <<fs, cache, store, now, logCfg, call>>

\* _simple_copy's test "if not target.is_file()"
RaceCheck(p) ==
    LET r == runs[p] IN
    /\ r.pc = "check"
    /\ runs' = [runs EXCEPT ![p].pc = IF Exists(fs, r.d.path) THEN "done" ELSE "copy"]
    /\ UNCHANGED <<fs, cache, store, now, logCfg, call>>

\* shutil.copy2(source, target): the target is written, whatever is there
RaceCopy(p) ==
    LET r == runs[p] IN
    /\ r.pc = "copy"
    /\ fs' = WriteFile(fs, r.d.path, fs[r.src])
    /\ runs' = [runs EXCEPT ![p].pc = "done", ![p].wrote = TRUE]
    /\ UNCHANGED <<cache, store, now, logCfg, call>>

\* the content of the file "ab.tiff" that is in the target directory at the
\* start, if any
RaceTargetFiles ==
    {[p \in {} |-> TifContent(1)]}
        \cup {[p \in {MkPath(DirD, StemAB, ExtTiff)} |-> TifContent(n)] : n \in 1..3}

\* two processes about to copy a match each
InitRace ==
    /\ \E t \in RaceTargetFiles :
          fs = [p \in DOMAIN InitFiles \cup DOMAIN t |->
                   IF p \in DOMAIN t THEN t[p] ELSE InitFiles[p]]
    /\ cache \in ScanAll(<<>>, InitFiles, <<DirA, DirB>>)
    /\ store = WriteCache(cache, 0)
    /\ now = 0
    /\ logCfg = NoLog
    /\ call = NoCall("init")
    /\ \E s1, s2 \in DOMAIN InitFiles : runs = [q \in RaceProcs |-> NewRun(IF q = 1 THEN s1 ELSE s2)]

NextRace ==
    \/ \E p \in RaceProcs : RacePolicy(p)
    \/ \E p \in RaceProcs : RaceCheck(p)
    \/ \E p \in RaceProcs : RaceCopy(p)

\* two copy runs at the same time
SpecRace == InitRace /\ [][NextRace]_vars

----------------------------------------------------------------------------
(* Properties *)

Range(q) == {q[i] : i \in 1..Len(q)}

\* needle occurs in key at some offset k, character by character
OccursIn(needle, key) ==
    \E k \in 0..Len(key) :
        /\ k + Len(needle) <= Len(key)
        /\ \A j \in 1..Len(needle) : key[k + j] = needle[j]

\* C1: search(needle) returns exactly the indexed paths whose key contains the
\* needle, each once; the empty needle returns every indexed path
SearchCorrect ==
    call.op = "search" =>
        /\ \A i \in 1..Len(cache) :
              (cache[i].path \in Range(call.found)) <=> OccursIn(call.needle, cache[i].key)
        /\ Range(call.found) \subseteq CachePaths(cache)
        /\ Len(call.found) = Cardinality(Range(call.found))
        /\ (call.needle = <<>> => Range(call.found) = CachePaths(cache))

\* a search whose needle occurs inside one key, not at its start, and in no
\* other key of a three-entry index
SearchWitness ==
    /\ call.op = "search"
    /\ call.needle = <<"(">>
    /\ Len(call.found) = 1
    /\ Len(cache) = 3

\* the files of directory d and their contents
DirContents(f, d) == {<<p, f[p]>> : p \in {q \in DOMAIN f : q.dir = d}}

\* C2: cp_results run a second time with the same matches and target leaves
\* the files of the target directory and their contents as the first run left
\* them
CopyIdempotent ==
    [][(/\ call.op = "cp"
        /\ call'.op = "cp"
        /\ call'.results = call.results
        /\ call'.target = call.target)
       => DirContents(fs', call.target) = DirContents(fs, call.target)]_vars

\* C3: when the plain name exists in the target directory with other content,
\* the name decided on is a numbered name "stem (n)", n >= 2, in the target
\* directory
NumberedInTarget ==
    call.op = "cp" =>
        \A i \in 1..Len(call.items) :
            LET it == call.items[i] IN
            (it.kind = "use" /\ Len(it.probes) > 1) =>
                /\ it.path.dir = call.target
                /\ it.path.ext = it.src.ext
                /\ \E n \in FirstNumber..(FirstNumber + MaxFiles) :
                      it.path.stem = NumberedStem(it.src.stem, n)

NoOverwrite ==
    [][call'.op \in {"cp", "preview"} =>
        /\ \A p \in DOMAIN fs : p \in DOMAIN fs' /\ fs'[p] = fs[p]
        /\ \A i \in 1..Len(call'.items) :
              call'.items[i].wrote => ~call'.items[i].existed
        /\ \A i, j \in 1..Len(call'.items) :
              (call'.items[i].wrote /\ call'.items[j].wrote /\ i # j)
                  => call'.items[i].path # call'.items[j].path]_vars

\* a preview run that wrote a numbered name because the plain one was taken
NoOverwriteWitness ==
    /\ call.op = "preview"
    /\ \E i \in 1..Len(call.items) :
          /\ call.items[i].wrote
          /\ call.items[i].path.stem = NumberedStem(call.items[i].src.stem, FirstNumber)

\* iscandir went through the refresh to its end: every root walked, the cache
\* file written
Rescanned ==
    /\ call.exc = "none"
    /\ ~call.young
    /\ call.walked = call.roots
    /\ store = WriteCache(cache, now)

\* C6: iscandir on an existing cache file completes the prune-and-rescan if
\* and only if the file is older than the threshold
StalenessGating ==
    (call.op = "iscandir" /\ call.exc # "FileNotFoundError") =>
        (Rescanned <=> call.age > StaleThreshold)

\* C7 as stated: the rescan is skipped only if the age is strictly below the
\* threshold
FreshOnlyBelowThreshold ==
    (call.op = "iscandir" /\ call.young) => call.age < StaleThreshold

\* C7, amended: the rescan is skipped only if the age is at most the
\* threshold, and at an age of exactly the threshold it is skipped
FreshUpToThreshold ==
    /\ (call.op = "iscandir" /\ call.young) => call.age <= StaleThreshold
    /\ (call.op = "iscandir" /\ call.exc = "none" /\ call.age = StaleThreshold)
          => (call.young /\ call.walked = <<>>)

\* iscandir called on a cache file aged exactly the threshold
ThresholdWitness ==
    /\ call.op = "iscandir"
    /\ call.age = StaleThreshold
    /\ call.young
    /\ cache # <<>>

\* C8: iscandir on a cache file that is not stale leaves the index and the
\* cache file (content and mtime) as they are and walks no directory
YoungUnchanged ==
    [][(/\ call'.op = "iscandir"
        /\ store.exists
        /\ now - store.mtime <= StaleThreshold)
       => (/\ cache' = cache
           /\ store' = store
           /\ fs' = fs
           /\ call'.walked = <<>>)]_vars

\* iscandir found a non-empty cache still young some time after it was written
YoungWitness ==
    /\ call.op = "iscandir"
    /\ call.young
    /\ call.age > 0
    /\ cache # <<>>
    /\ \E p \in CachePaths(cache) : ~Exists(fs, p)

\* C9: after iscandir found the cache stale, no entry of the index or of the
\* cache file names a file that is not on disk
PrunedOnRefresh ==
    (call.op = "iscandir" /\ call.age > StaleThreshold) =>
        /\ \A p \in CachePaths(cache) : Exists(fs, p)
        /\ \A p \in CachePaths(store.data) : Exists(fs, p)

\* C10: cp_results into an existing directory processes every match of the
\* list, whatever happened to the matches before it
BatchIsolation ==
    (call.op = "cp" /\ call.target \in ExistingDirs) =>
        /\ Len(call.items) = Len(call.results)
        /\ \A i \in 1..Len(call.items) : call.items[i].src = call.results[i]

\* C11: once a directory holding exactly "A 110.tif" and "a 110.TIF" has
\* been scanned, the index has two entries and search("A 110") returns both
\* paths
ScenarioA ==
    (/\ call.op = "search"
     /\ call.needle = StemA110
     /\ store.exists
     /\ DOMAIN fs = {MkPath(DirA, StemA110, ExtTif), MkPath(DirA, Stema110, ExtTIF)})
    => (/\ Len(cache) = 2
        /\ Range(call.found) = DOMAIN fs)

\* C12: after scandir(root) every file under root whose extension is "tif" or
\* "tiff" has an entry in the index, and every entry is for a file whose
\* extension begins with "tif"
ScanComplete ==
    call.op = "scandir" =>
        /\ \A p \in DOMAIN fs :
              (IsUnder(p.dir, call.roots[1]) /\ p.ext \in {ExtTif, ExtTiff})
                  => p \in CachePaths(cache)
        /\ \A p \in CachePaths(cache) :
              Len(p.ext) >= Len(ExtTif) /\ SubSeq(p.ext, 1, Len(ExtTif)) = ExtTif

\* the space-delimited tokens of s
Tokens(s) == Split(s, " ", Len(s))

\* s cut down to its first k tokens
FirstTokens(s, k) ==
    LET tk == Tokens(s)
    IN  Join(SubSeq(tk, 1, IF Len(tk) < k THEN Len(tk) ELSE k), " ")

\* C13: the key of an indexed file is its stem with "_" replaced by a space,
\* cut down to the first MaxSplit tokens
KeyTruncated ==
    call.op = "scandir" =>
        \A i \in 1..Len(cache) :
            cache[i].key = FirstTokens(ReplaceChar(cache[i].path.stem, "_", " "), MaxSplit)

RECURSIVE SearchEach(_, _)
\* search(i1) followed by search(i2) ... followed by search(in)
SearchEach(c, idents) ==
    IF idents = <<>> THEN <<>>
    ELSE Search(c, Head(idents)) \o SearchEach(c, Tail(idents))

\* C19: search_mpx returns a list, never None, made of the matches of every
\* identifier of the export in turn, a path once for each identifier that
\* matches it; the list is empty when the export has no identifier
MpxResolvesAll ==
    call.op = "search_mpx" =>
        /\ ~call.none
        /\ call.found = SearchEach(cache, call.idents)

\* C20 as stated: after a scan that was interrupted, the cache file has an
\* entry for every file the scan had indexed
CrashKeepsProgress ==
    call.op = "crash" =>
        \A i \in 1..Len(call.indexed) : call.indexed[i] \in CachePaths(store.data)

\* C20, amended: a scan that is interrupted leaves the cache file as it was
\* before the scan, whatever it had indexed
CrashKeepsStore ==
    [][call'.op = "crash" => store' = store]_vars

\* a scan interrupted after it had indexed a file that the cache file does
\* not name
CrashWitness ==
    /\ call.op = "crash"
    /\ \E i \in 1..Len(call.indexed) : call.indexed[i] \notin CachePaths(store.data)

\* the longer edge of an image
LongerEdge(c) == IF c.w >= c.h THEN c.w ELSE c.h

\* C14: every preview written is a JPEG whose longer edge is at most
\* PreviewBound, that is in neither dimension larger than its source and has
\* the source's aspect ratio to within a pixel; a source within the bound is
\* saved in its own size
PreviewFits ==
    call.op = "preview" =>
        \A i \in 1..Len(call.items) :
            call.items[i].wrote =>
                LET s == fs[call.items[i].src]
                    p == fs[call.items[i].path]
                IN  /\ p.fmt = "jpg"
                    /\ LongerEdge(p) <= PreviewBound
                    /\ p.w <= s.w /\ p.h <= s.h
                    /\ p.w * s.h - p.h * s.w <= LongerEdge(s)
                    /\ p.h * s.w - p.w * s.h <= LongerEdge(s)
                    /\ (LongerEdge(s) <= PreviewBound => (p.w = s.w /\ p.h = s.h))

\* the positions of the matches of a log run for which a line was logged
LoggedAt(items) == {i \in 1..Len(items) : items[i].logged}

\* C15: log_results leaves every file on disk as it is and writes none; when
\* its log can be opened it logs one "File not found" line for each match
\* that is not on disk and none for the others, so exactly one line for a
\* list with exactly one missing match
LogOnly ==
    [][call'.op = "log" =>
        /\ fs' = fs
        /\ \A i \in 1..Len(call'.items) : ~call'.items[i].wrote
        /\ ~InitLogFails(logCfg, call'.target) =>
              /\ call'.exc = "none"
              /\ Len(call'.items) = Len(call'.results)
              /\ LoggedAt(call'.items)
                    = {i \in 1..Len(call'.results) : ~Exists(fs, call'.results[i])}
              /\ (Cardinality({i \in 1..Len(call'.results) : ~Exists(fs, call'.results[i])}) = 1
                     => Cardinality(LoggedAt(call'.items)) = 1)]_vars

\* a log run over three matches of which exactly one is no longer on disk
LogWitness ==
    /\ call.op = "log"
    /\ call.exc = "none"
    /\ Len(call.results) = 3
    /\ Cardinality({i \in 1..Len(call.results) : ~Exists(fs, call.results[i])}) = 1
    /\ Cardinality(LoggedAt(call.items)) = 1

\* C16: with the cache file absent no call fails and the constructor builds
\* an empty index; on a cache file whose content is malformed the constructor
\* fails
StoreTolerated ==
    /\ ~store.exists => call.exc = "none"
    /\ (call.op = "init" /\ ~store.exists) => cache = <<>>
    /\ (call.op = "init" /\ store.exists /\ ~store.wellformed) => call.exc # "none"

\* C17: cp_results or preview_results called with a target directory that
\* does not exist fails, and writes no file, in every call of a process
DestinationChecked ==
    (call.op \in {"cp", "preview"} /\ call.target \notin ExistingDirs) =>
        /\ call.exc # "none"
        /\ \A i \in 1..Len(call.items) : ~call.items[i].wrote

\* the part of a target name after "mulId."
NameAfterId(it, rec) == SubSeq(it.path.stem, Len(rec.mulId) + 2, Len(it.path.stem))

TakenAt(f, items, i) ==
    DOMAIN f \cup {items[j].path : j \in {k \in 1..(i - 1) : items[k].wrote}}

\* C21: preview_results never skips a match: the name it writes is in
\* target_dir, has the new extension and is not taken, the plain name
\* "stem.jpg" if that is free and else the first free one of "stem (2).jpg",
\* "stem (3).jpg", ...; a run that completes writes one new file for every
\* match, so that k runs over a match leave k files
PreviewNeverSkips ==
    [][call'.op = "preview" =>
        /\ \A i \in 1..Len(call'.items) :
              LET it == call'.items[i]
                  taken == TakenAt(fs, call'.items, i)
                  plain == MkPath(call'.target, it.src.stem, ExtJpg)
              IN  /\ it.kind = "use"
                  /\ it.wrote
                  /\ it.src = call'.results[i]
                  /\ it.path.dir = call'.target
                  /\ it.path.ext = ExtJpg
                  /\ it.path \notin taken
                  /\ plain \notin taken => it.path = plain
                  /\ plain \in taken =>
                        \E n \in FirstNumber..(FirstNumber + Cardinality(taken)) :
                            /\ it.path.stem = NumberedStem(it.src.stem, n)
                            /\ \A m \in FirstNumber..(n - 1) :
                                  MkPath(call'.target, NumberedStem(it.src.stem, m), ExtJpg)
                                      \in taken
        /\ call'.exc = "none" =>
              /\ Len(call'.items) = Len(call'.results)
              /\ Cardinality(DOMAIN fs') = Cardinality(DOMAIN fs) + Len(call'.results)
              /\ \A p \in DOMAIN fs : p \in DOMAIN fs' /\ fs'[p] = fs[p]]_vars

\* the third preview run over one match: "stem.jpg", "stem (2).jpg" and
\* "stem (3).jpg" are there, the last one just written
PreviewThriceWitness ==
    /\ call.op = "preview"
    /\ Len(call.items) = 1
    /\ LET it == call.items[1] IN
          /\ it.wrote
          /\ it.path = MkPath(call.target, NumberedStem(it.src.stem, FirstNumber + 1), ExtJpg)
          /\ Exists(fs, MkPath(call.target, it.src.stem, ExtJpg))
          /\ Exists(fs, MkPath(call.target, NumberedStem(it.src.stem, FirstNumber), ExtJpg))
          /\ Exists(fs, it.path)

\* C23: cp_results creates or changes files in target_dir only, so that a
\* scan of the root finds the same files after the copy as before it
CopyWritesTargetOnly ==
    [][call'.op = "cp" =>
        /\ \A p \in DOMAIN fs' :
              (p \notin DOMAIN fs \/ fs'[p] # fs[p]) => p.dir = call'.target
        /\ ScanFiles(fs', RootR) = ScanFiles(fs, RootR)]_vars

\* both runs have come to their end
BothDone == \A p \in RaceProcs : runs[p].pc = "done"

\* the file the run decided to write is there with the content of its source
Kept(r) == r.d.kind = "use" => (Exists(fs, r.d.path) /\ fs[r.d.path] = fs[r.src])

\* C22 as stated: two runs at the same time whose sources have the same name
\* and different content never both decide on the same name, and when both
\* are done the file of either source is there as that run wrote it
RaceFree ==
    (/\ runs # NoRuns
     /\ runs[1].src.stem = runs[2].src.stem
     /\ runs[1].src.ext = runs[2].src.ext
     /\ fs[runs[1].src] # fs[runs[2].src])
    => /\ ~(/\ runs[1].d.kind = "use"
            /\ runs[2].d.kind = "use"
            /\ runs[1].d.path = runs[2].d.path)
       /\ BothDone => (Kept(runs[1]) /\ Kept(runs[2]))

\* C22, amended: of two runs that do not overlap, neither naming its target
\* while the other has named its own and not finished, the two never decide on
\* the same name, each writes the file it decided on, and that file is there
\* with the content of its source when both are done
SerialRunsSafe ==
    (runs # NoRuns /\ \A p \in RaceProcs : ~runs[p].overlap) =>
        /\ ~(/\ runs[1].d.kind = "use"
             /\ runs[2].d.kind = "use"
             /\ runs[1].d.path = runs[2].d.path)
        /\ BothDone => \A p \in RaceProcs :
                          /\ Kept(runs[p])
                          /\ runs[p].d.kind = "use" => runs[p].wrote

\* two runs, one after the other, over sources of the same name and different
\* content: both have written, under different names
SerialWitness ==
    /\ runs # NoRuns
    /\ BothDone
    /\ \A p \in RaceProcs : ~runs[p].overlap /\ runs[p].wrote
    /\ runs[1].src.stem = runs[2].src.stem
    /\ fs[runs[1].src] # fs[runs[2].src]
    /\ runs[1].d.path # runs[2].d.path

====
